---- MODULE Spec2Model ----
(***************************************************************************)
(* Model of oobabot's per-channel orchestration engine                     *)
(* (src/src/oobabot/discord_bot.py): MessageQueue and the DiscordBot       *)
(* handlers that drive it, running on one asyncio event loop.              *)
(*                                                                         *)
(* Scheduling model.  asyncio runs callbacks from a FIFO ready queue.      *)
(* `ready` holds the handles the program itself queued with call_soon:     *)
(* the first step of a created task, the wake-up of a cancelled task, the  *)
(* done-callbacks of a finished task and the wake-ups of the coroutines    *)
(* awaiting it.  The callbacks of one finished task are queued together,   *)
(* so nothing runs between them ("glued" handles).  Steps caused by the    *)
(* outside world (a Discord event, a timer, a backend reply) may run at    *)
(* any boundary between such groups.  Durations are not modelled: a timer  *)
(* may fire whenever its task sleeps.                                      *)
(*                                                                         *)
(* Sub-tasks.  The text and image sub-tasks of _handle_response are not    *)
(* stepped one by one: the response task is "wait"ing on them, and what    *)
(* the outside world decides about them (whether an image was requested,   *)
(* how the handling ends, where the text sub-task is suspended when it is  *)
(* cancelled) is chosen when the response task observes it.  `pending`     *)
(* holds the sub-tasks that go on running after _handle_response has       *)
(* returned.                                                               *)
(***************************************************************************)
EXTENDS Naturals, Sequences, FiniteSets, TLC

\* ------------------------------------------------------------ bounds
MaxEvents == 3      \* Discord events (message, poke, unpoke, delete) per behaviour
MaxTasks == 2       \* task handles of each kind alive at once
MaxUnits == 3       \* units of a response stream
MaxHistory == 3     \* messages in the history of a channel
MentionWindow == 1  \* ticks during which a mention counts as recent
repetition_threshold == 2   \* repetitions that set the throttle
message_character_limit == 3    \* characters a Discord message may hold
PeriodTicks == 2    \* message_accumulation_period in 0.1 s polls

Channels == {1, 2}
\* Message 0 stands for a message should_ignore_message() rejects (the bot's
\* own message, an ignore-prefix); the others are ordinary messages, numbered
\* in the order they first arrive.
Msgs == 0..MaxEvents
TaskIds == 1..MaxTasks
FlowIds == 1..(MaxTasks + 1)

VARIABLES
    live,           \* the channels that receive events in this behaviour
    settings,       \* discord_settings read by MessageQueue.__init__
    queues,         \* MessageQueue.queues: channel -> deque (index 1 = left)
    buffers,        \* MessageQueue.buffers
    response_tasks, \* MessageQueue.response_tasks: channel -> task handle
    wait_tasks,     \* MessageQueue.wait_tasks
    panic_tasks,    \* MessageQueue.panic_tasks
    guarantees,     \* DecideToRespond's guaranteed-response ids per channel
    rt,             \* response tasks (_process_message_queue), by handle
    wt,             \* accumulation tasks (_accumulate_messages), by handle
    pt,             \* panic tasks (_panic), by handle
    flows,          \* handler coroutines suspended at an await
    ready,          \* the event loop's ready queue (call_soon handles)
    pending,        \* sub-tasks of _handle_response still running after it returned
    used,           \* events consumed so far (bounds the behaviour)
    log,            \* history: what the last step did, exceptions that escaped
    stats,          \* history: the collaborator calls the last step made
    render,         \* one run of _render_streaming_response and of its caller
    history,        \* one run of _filtered_history_iterator
    tracker,        \* RepetitionTracker's state for one channel
    decision        \* DecideToRespond's state for one channel

\* The message queue, its tasks and the event loop
coreVars == <<live, settings, queues, buffers, response_tasks, wait_tasks,
              panic_tasks, guarantees, rt, wt, pt, flows, ready, pending,
              used, log, stats>>

vars == <<coreVars, render, history, tracker, decision>>

\* The program's own state (everything but the event budget and the history).
progVars == <<queues, buffers, response_tasks, wait_tasks, panic_tasks,
              guarantees, rt, wt, pt, flows, ready, pending>>

\* ------------------------------------------------------------ helpers
Reverse(s) == [i \in 1..Len(s) |-> s[Len(s) + 1 - i]]

Contains(s, m) == \E i \in 1..Len(s) : s[i] = m

RECURSIVE RemoveFirst(_, _)
\* deque.remove(m): removes the leftmost occurrence
RemoveFirst(s, m) ==
    IF s = <<>> THEN <<>>
    ELSE IF Head(s) = m THEN Tail(s)
    ELSE <<Head(s)>> \o RemoveFirst(Tail(s), m)

Last(s) == s[Len(s)]

\* dict operations: a dict is a function whose DOMAIN is its key set
DictPop(d, k) == [x \in (DOMAIN d) \ {k} |-> d[x]]
DictSet(d, k, v) == [x \in (DOMAIN d) \cup {k} |-> IF x = k THEN v ELSE d[x]]

FreeIds(pool) == {i \in DOMAIN pool : pool[i].st = "free"}
LowestFree(pool) == CHOOSE i \in FreeIds(pool) : \A j \in FreeIds(pool) : i <= j

\* A call_soon handle: what it runs (k, id), whether it was queued together
\* with the handle before it (glued), and for the wake-up of an awaiting
\* coroutine the outcome of the awaited task (res).
Handle(k, id, glued, res) == [k |-> k, id |-> id, glued |-> glued, res |-> res]

\* decide_to_respond.should_ignore_message
should_ignore_message(m) == m = 0

\* ------------------------------------------------------------ program state
\* The handlers are sequential code over the shared maps.  Each method is an
\* operator from a state record S to the state record after the call, so a
\* handler is the composition of the calls it makes, in the order it makes them.
\* S.over is set when a step needs a task handle and the pool is exhausted
\* (a bound of the model); S.tag names what the step observably did and
\* S.stats the calls it made to the backend and to response_stats.
NoStats == [stage |-> "none", can_abort |-> FALSE, calls |-> {}]

Cur ==
    [queues |-> queues, buffers |-> buffers, response_tasks |-> response_tasks,
     wait_tasks |-> wait_tasks, panic_tasks |-> panic_tasks,
     guarantees |-> guarantees, rt |-> rt, wt |-> wt, pt |-> pt,
     flows |-> flows, ready |-> ready, pending |-> pending, over |-> FALSE,
     tag |-> "none", stats |-> NoStats]

Commit(S) ==
    /\ ~S.over
    /\ queues' = S.queues
    /\ buffers' = S.buffers
    /\ response_tasks' = S.response_tasks
    /\ wait_tasks' = S.wait_tasks
    /\ panic_tasks' = S.panic_tasks
    /\ guarantees' = S.guarantees
    /\ rt' = S.rt
    /\ wt' = S.wt
    /\ pt' = S.pt
    /\ flows' = S.flows
    /\ ready' = S.ready
    /\ pending' = S.pending
    /\ log' = S.tag
    /\ stats' = S.stats
    /\ UNCHANGED <<render, history, tracker, decision>>

Tag(S, t) == [S EXCEPT !.tag = t]
Sched(S, h) == [S EXCEPT !.ready = Append(@, h)]

FreeRt == [st |-> "free", ch |-> 0, cancel |-> FALSE, att |-> FALSE, res |-> "none",
           waiters |-> <<>>, cur |-> <<>>, gone |-> FALSE]
FreeWt == [st |-> "free", ch |-> 0, ql |-> 0, ticks |-> 0, by |-> 0, arrived |-> 0]
FreePt == [st |-> "free", ch |-> 0, cancel |-> FALSE, res |-> "none", waiters |-> <<>>]
FreeFlow == [st |-> "free", ch |-> 0, m |-> 0, g |-> FALSE]

\* ------------------------------------------------------------ MessageQueue
get_queue_length(S, ch) ==
    IF ch \in DOMAIN S.queues THEN Len(S.queues[ch]) ELSE 0

contains_message(S, ch, m) ==
    IF ch \in DOMAIN S.queues THEN Contains(S.queues[ch], m) ELSE FALSE

\* remove_queue drops the deque object from the map.  A response task that
\* fetched that deque with get_queue keeps the (now empty) object: it is no
\* longer attached to the channel's queue.
remove_queue(S, ch) ==
    [S EXCEPT !.queues = DictPop(@, ch),
              !.rt = [i \in DOMAIN @ |->
                        IF @[i].ch = ch THEN [@[i] EXCEPT !.att = FALSE] ELSE @[i]]]

\* _remove_empty_queue that never removes
_remove_empty_queue_never(S, ch) == S

_remove_empty_queue(S, ch) ==
    IF ch \in DOMAIN S.queues /\ S.queues[ch] = <<>>
    THEN remove_queue(S, ch)
    ELSE S

_ensure_queue(S, ch) ==
    IF ch \notin DOMAIN S.queues
    THEN [S EXCEPT !.queues = DictSet(@, ch, <<>>)]
    ELSE S

appendleft(S, ch, m) ==
    LET E == _ensure_queue(S, ch)
    IN  [E EXCEPT !.queues[ch] = <<m>> \o @]

append(S, ch, m) ==
    LET E == _ensure_queue(S, ch)
    IN  [E EXCEPT !.queues[ch] = Append(@, m)]

\* deque.extendleft(it) appendlefts the items of `it` left to right, so they
\* end up in reversed order at the left end.
extendleft(S, ch, ms) ==
    LET E == _ensure_queue(S, ch)
    IN  [E EXCEPT !.queues[ch] = Reverse(ms) \o @]

\* clear/remove raise ValueError without a queue; their callers check first.
clear(S, ch) ==
    _remove_empty_queue([S EXCEPT !.queues[ch] = <<>>], ch)

remove(S, ch, m) ==
    _remove_empty_queue([S EXCEPT !.queues[ch] = RemoveFirst(@, m)], ch)

unbuffer(S, ch, m) ==
    IF ch \in DOMAIN S.buffers /\ Contains(S.buffers[ch], m)
    THEN [S EXCEPT !.buffers[ch] = RemoveFirst(@, m)]
    ELSE S

\* `message in self.buffers` tests the dict's keys (channel ids), not the
\* channel's deque: no message is ever a key.
is_buffered(S, ch, m) ==
    IF ch \in DOMAIN S.buffers THEN FALSE ELSE FALSE

is_buffering(S, ch) ==
    IF ch \in DOMAIN S.wait_tasks
    THEN S.wt[S.wait_tasks[ch]].st # "done"
    ELSE FALSE

is_panicking(S, ch) ==
    IF ch \in DOMAIN S.panic_tasks
    THEN S.pt[S.panic_tasks[ch]].st # "done"
    ELSE FALSE

is_responding(S, ch) ==
    IF ch \in DOMAIN S.response_tasks
    THEN S.rt[S.response_tasks[ch]].st # "done"
    ELSE FALSE

\* ------------------------------------------------------------ tasks
\* asyncio.create_task: the task's first step is queued with call_soon.
NewRt(ch) == [st |-> "new", ch |-> ch, cancel |-> FALSE, att |-> FALSE,
              res |-> "none", waiters |-> <<>>, cur |-> <<>>, gone |-> FALSE]
NewPt(ch) == [st |-> "new", ch |-> ch, cancel |-> FALSE, res |-> "none",
              waiters |-> <<>>]

add_response_task(S, ch) ==
    IF FreeIds(S.rt) = {} THEN [S EXCEPT !.over = TRUE]
    ELSE LET id == LowestFree(S.rt)
         IN  Sched([S EXCEPT !.rt[id] = NewRt(ch),
                             !.response_tasks = DictSet(@, ch, id)],
                   Handle("rt", id, FALSE, "none"))

\* remove_response_task emptying the whole map (clear() for pop(channel_id))
remove_response_task_all(S, ch) ==
    [S EXCEPT !.response_tasks = <<>>]

remove_response_task(S, ch) ==
    [S EXCEPT !.response_tasks = DictPop(@, ch)]

\* Task.cancel() on a task that is not done: a task that has not started yet
\* is marked and throws CancelledError at its first step; a suspended task is
\* woken with CancelledError at its await.  A second request before the task
\* has run queues nothing new.
CancelRt(S, id) ==
    IF S.rt[id].cancel THEN S
    ELSE IF S.rt[id].st = "new" THEN [S EXCEPT !.rt[id].cancel = TRUE]
    ELSE Sched([S EXCEPT !.rt[id].cancel = TRUE], Handle("rt", id, FALSE, "none"))

CancelPt(S, id) ==
    IF S.pt[id].cancel THEN S
    ELSE IF S.pt[id].st = "new" THEN [S EXCEPT !.pt[id].cancel = TRUE]
    ELSE Sched([S EXCEPT !.pt[id].cancel = TRUE], Handle("pt", id, FALSE, "none"))

cancel_response_task(S, ch) ==
    IF ch \in DOMAIN S.response_tasks /\ S.rt[S.response_tasks[ch]].st # "done"
    THEN CancelRt(S, S.response_tasks[ch])
    ELSE S

\* the value cancel_response_task returns
cancel_response_task_result(S, ch) ==
    ch \in DOMAIN S.response_tasks /\ S.rt[S.response_tasks[ch]].st # "done"

\* _done_callback without remove_response_task
_done_callback_keep(S, ch) ==
    _remove_empty_queue(S, ch)

_done_callback(S, ch) ==
    _remove_empty_queue(remove_response_task(S, ch), ch)

\* A finished task queues its done-callbacks in the order they were added: the
\* one add_done_callback registered at creation, then the wake-up of every
\* coroutine awaiting the task.
WakeHandles(waiters, res) ==
    [i \in 1..Len(waiters) |-> Handle("flow", waiters[i], TRUE, res)]

FinishRt(S, id, res) ==
    [S EXCEPT !.rt[id].st = "done", !.rt[id].res = res, !.rt[id].cancel = FALSE,
              !.rt[id].cur = <<>>, !.rt[id].gone = FALSE,
              !.ready = @ \o <<Handle("rt_cb", id, FALSE, "none")>>
                          \o WakeHandles(S.rt[id].waiters, res)]

FinishPt(S, id, res) ==
    [S EXCEPT !.pt[id].st = "done", !.pt[id].res = res, !.pt[id].cancel = FALSE,
              !.ready = @ \o <<Handle("pt_cb", id, FALSE, "none")>>
                          \o WakeHandles(S.pt[id].waiters, res)]

\* decide_to_respond.purge_guarantees
purge_guarantees(S, ch) == [S EXCEPT !.guarantees[ch] = {}]

\* decide_to_respond.guarantee_response
guarantee_response(S, ch, m) == [S EXCEPT !.guarantees[ch] = @ \cup {m}]

\* ------------------------------------------------------------ response task
\* What the outside world decides during one run of the loop of
\* _process_message_queue: how many popped messages get no response
\* (should_respond false, or _handle_response returning at once), whether the
\* handling of the next one first suspends before its sub-task exists
\* (try_session, image descriptions, create_thread: "prewait") or goes straight
\* to asyncio.wait on its sub-tasks ("wait"), and whether an image task runs.
\* c.out is how the handling of the current message ends: normally ("ok"),
\* with a DiscordException the text sub-task catches while sending
\* ("send_failed"), with a DiscordException raised in _handle_response itself
\* ("discord_error"), or with any other exception ("error").  c.stage is where
\* the text sub-task is suspended when it is cancelled, and c.can_abort what
\* ooba_client.can_abort_generation() answers.
Outcomes == {"ok", "send_failed", "discord_error", "error"}

\* The awaits of the text sub-task (_send_text_response_in_channel): building
\* the history and the prompt ("prompt"), request_as_string inside the try
\* block of _generate_text_response ("request", only with as_string), reading
\* the backend's stream in _render_streaming_response ("stream"), and sending
\* or editing the Discord message ("send").
TextStages(as_string) ==
    IF as_string THEN {"prompt", "request", "send"}
    ELSE {"prompt", "stream", "send"}

\* _send_text_response_in_channel calls _generate_text_response without
\* as_string, so the parameter has its default, False.
LoopChoices ==
    [skip : 0..MaxEvents, mode : {"prewait", "wait"}, img : BOOLEAN,
     out : {"ok"}, stage : {"none"}, can_abort : {FALSE}]
FailChoices ==
    [skip : 0..MaxEvents, mode : {"prewait", "wait"}, img : BOOLEAN,
     out : Outcomes \ {"ok"}, stage : {"none"}, can_abort : {FALSE}]
StageChoices ==
    [skip : {0}, mode : {"wait"}, img : {FALSE}, out : {"ok"},
     stage : TextStages(FALSE), can_abort : BOOLEAN]
Choices == LoopChoices \cup FailChoices \cup StageChoices
NoChoice == [skip |-> 0, mode |-> "wait", img |-> FALSE, out |-> "ok",
             stage |-> "none", can_abort |-> FALSE]

\* the handler of CancelledError in _generate_text_response, run for every
\* stage of the text sub-task
_generate_text_response_anywhere(stage, can_abort) ==
    (IF can_abort THEN {"stop"} ELSE {}) \cup {"log_response_failure"}

\* The calls _generate_text_response makes when CancelledError is thrown into
\* the text sub-task at `stage`: its handler covers only the try block, whose
\* one await is request_as_string.
_generate_text_response(stage, can_abort) ==
    IF stage = "request"
    THEN (IF can_abort THEN {"stop"} ELSE {}) \cup {"log_response_failure"}
    ELSE {}

\* the deque the task fetched with get_queue at its first step
TaskDeque(S, id) ==
    IF S.rt[id].att THEN S.queues[S.rt[id].ch] ELSE <<>>

LoopChoiceOK(S, id, c) ==
    LET q == TaskDeque(S, id)
    IN  /\ c.skip <= Len(q)
        /\ c.skip < Len(q) => ~should_ignore_message(q[Len(q) - c.skip])
        /\ c.skip = Len(q) => c.mode = "wait"
        /\ c.img = FALSE
        /\ c.out = "ok"
        /\ c.stage = "none"

\* while message_queue: raw_message = message_queue.pop() ...  The pops act on
\* the deque object itself, so the channel's map entry stays even when the
\* deque becomes empty.  Runs to the next suspension or to the end of the task.
\* rt[id].cur is the message _handle_response was called for (raw_message);
\* rt[id].gone records that its deletion was reported before the text
\* sub-task was created.
ProcessLoop(S, id, c) ==
    LET ch == S.rt[id].ch
        q == TaskDeque(S, id)
        n == Len(q)
        npop == IF c.skip >= n THEN n ELSE c.skip + 1
        popped == {q[i] : i \in (n - npop + 1)..n}
        S1 == IF S.rt[id].att
              THEN [S EXCEPT !.queues[ch] = SubSeq(q, 1, n - npop),
                             !.guarantees[ch] = @ \ popped]
              ELSE S
    IN  IF c.skip >= n
        THEN FinishRt(purge_guarantees(S1, ch), id, "ok")
        ELSE [S1 EXCEPT !.rt[id].st = c.mode,
                        !.rt[id].cur = <<q[n - c.skip]>>,
                        !.rt[id].gone = FALSE]

\* One step of the response task taken from the ready queue: its first step,
\* or its wake-up with CancelledError.
RtStep(S, id, c) ==
    LET T == S.rt[id]
    IN  CASE T.st = "new" /\ T.cancel ->
                Tag(FinishRt(S, id, "cancelled"), "task_cancelled")
          [] T.st = "new" /\ ~T.cancel ->
                ProcessLoop([S EXCEPT !.rt[id].att = (T.ch \in DOMAIN S.queues)], id, c)
          [] T.st = "prewait" ->
                Tag(FinishRt(S, id, "cancelled"), "task_cancelled")
          [] T.st = "wait" /\ ~c.img ->
                Tag([S EXCEPT !.rt[id].st = "cleanup", !.rt[id].cancel = FALSE,
                              !.stats = [stage |-> c.stage, can_abort |-> c.can_abort,
                                         calls |-> _generate_text_response(
                                                       c.stage, c.can_abort)]],
                    "text_cancelled")
          [] T.st = "wait" /\ c.img ->
                Tag(ProcessLoop([S EXCEPT !.rt[id].cancel = FALSE,
                                          !.pending[T.ch] = @ \cup {"text", "image"}],
                                id, [c EXCEPT !.img = FALSE]),
                    "cancel_ignored")
          [] T.st = "cleanup" ->
                Tag(ProcessLoop([S EXCEPT !.rt[id].cancel = FALSE], id, c),
                    "cancel_handled")
          [] OTHER -> S

RtStepChoiceOK(S, id, c) ==
    LET T == S.rt[id]
    IN  CASE T.st = "new" /\ ~T.cancel ->
                LoopChoiceOK([S EXCEPT !.rt[id].att = (T.ch \in DOMAIN S.queues)], id, c)
          [] T.st = "wait" /\ c.img ->
                /\ settings.image_generator
                /\ LoopChoiceOK(S, id, [c EXCEPT !.img = FALSE])
          [] T.st = "wait" /\ ~c.img ->
                /\ c.stage # "none"
                /\ c = [NoChoice EXCEPT !.stage = c.stage, !.can_abort = c.can_abort]
          [] T.st = "cleanup" -> LoopChoiceOK(S, id, c)
          [] OTHER -> c = NoChoice

\* The response task resumes in _handle_response without having been
\* cancelled.  At "prewait" the awaited call returned or raised; at "wait"
\* asyncio.wait returned because a sub-task finished; at "cleanup" the
\* cancelled text sub-task finished.
\* image_generator.generate_image is a coroutine function that
\* _handle_response calls without await, so the image entry of response_tasks
\* is a coroutine object.  Up to Python 3.10 asyncio.wait wraps it in a task
\* that finishes at its first step, and FIRST_COMPLETED returns with the text
\* sub-task and the created image task running; from Python 3.11 asyncio.wait
\* raises TypeError, with the text sub-task running.
ResumeChoiceOK(S, id, c) ==
    LET T == S.rt[id]
        loop == [c EXCEPT !.img = FALSE, !.out = "ok"]
    IN  /\ c.stage = "none"
        /\ c.img => settings.image_generator
        /\ CASE T.st = "prewait" /\ c.out = "error" ->
                    c = [NoChoice EXCEPT !.out = "error", !.img = c.img]
              [] T.st = "prewait" /\ c.out # "error" ->
                    /\ c.out \in {"ok", "discord_error"}
                    /\ ~c.img
                    /\ LoopChoiceOK(S, id, loop)
              [] T.st = "wait" ->
                    /\ c.out \in {"ok", "send_failed", "error"}
                    /\ c.img => c.out = "ok"
                    /\ LoopChoiceOK(S, id, loop)
              [] T.st = "cleanup" -> LoopChoiceOK(S, id, c)
              [] OTHER -> FALSE

Calls(S, calls) == [S EXCEPT !.stats.calls = calls]

Resume(S, id, c) ==
    LET T == S.rt[id]
        ch == T.ch
        loop == [c EXCEPT !.img = FALSE, !.out = "ok"]
        left == IF c.img
                THEN [S EXCEPT !.pending[ch] =
                         @ \cup (IF c.out = "error" THEN {"text"} ELSE {"text", "image"})]
                ELSE S
    IN  CASE c.out = "error" /\ T.st = "prewait" ->
                Tag(FinishRt(left, id, "error"), "task_failed")
          [] c.out = "error" /\ T.st # "prewait" ->
                Tag(ProcessLoop(S, id, loop), "subtask_error")
          [] c.out = "discord_error" ->
                Tag(ProcessLoop(S, id, loop), "error_caught")
          [] c.out = "send_failed" ->
                Tag(Calls(ProcessLoop(S, id, loop), {"log_response_failure"}),
                    "send_failed")
          [] c.out = "ok" /\ T.st = "cleanup" ->
                Tag(ProcessLoop(S, id, loop), "cancel_handled")
          [] c.out = "ok" /\ T.st = "wait" /\ ~c.img ->
                Tag(Calls(ProcessLoop(S, id, loop), {"log_response_success"}),
                    "handled")
          [] OTHER ->
                Tag(ProcessLoop(left, id, loop), "handled")

\* ------------------------------------------------------------ process_messages
\* A handler coroutine that reaches an await on an unfinished task is parked in
\* `flows` with what it needs to go on: its channel, its message and the value
\* of is_guaranteed it computed on entry.
NewFlow(st, ch, m, g) == [st |-> st, ch |-> ch, m |-> m, g |-> g]

\* process_messages, from "Abort if the queue is currently being processed".
StartProcessing(S, ch) ==
    IF is_responding(S, ch) \/ get_queue_length(S, ch) = 0
    THEN S
    ELSE Tag(add_response_task(S, ch), "task_started")

\* process_messages, the preemption test, up to `await cancelled_task`.
Preempt(S, ch, m, g) ==
    IF settings.skip_in_progress_responses /\ is_responding(S, ch)
    THEN IF ~g /\ should_ignore_message(m) THEN S
         ELSE IF ~is_buffered(S, ch, m) /\ ~contains_message(S, ch, m) THEN S
         ELSE IF cancel_response_task_result(S, ch)
         THEN IF FreeIds(S.flows) = {} THEN [S EXCEPT !.over = TRUE]
              ELSE LET f == LowestFree(S.flows)
                       C == cancel_response_task(S, ch)
                       t == C.response_tasks[ch]
                   IN  Tag([C EXCEPT !.flows[f] = NewFlow("cancel_wait", ch, m, g),
                                     !.rt[t].waiters = Append(@, f)],
                           "preempting")
         ELSE StartProcessing(S, ch)
    ELSE StartProcessing(S, ch)

\* process_messages after `await cancelled_task`.  Awaiting a task that ended
\* cancelled raises CancelledError in the awaiting coroutine, which ends it.
AfterPreempt(S, f, res) ==
    LET ch == S.flows[f].ch
        m == S.flows[f].m
        g == S.flows[f].g
        S0 == [S EXCEPT !.flows[f] = FreeFlow]
    IN  IF res # "ok" THEN Tag(S0, "preempt_raised")
        ELSE IF ~contains_message(S0, ch, m) THEN Tag(S0, "preempt_gone")
        ELSE LET S1 ==
                   IF settings.respond_to_latest_only /\ get_queue_length(S0, ch) > 1
                   THEN LET A == appendleft(clear(S0, ch), ch, m)
                        IN  IF Cardinality(A.guarantees[ch]) > 1
                            THEN [A EXCEPT !.guarantees[ch] = IF g THEN {m} ELSE {}]
                            ELSE A
                   ELSE LET A == append(S0, ch, m)
                        IN  [A EXCEPT !.guarantees[ch] = @ \ {m}]
             IN  Tag(StartProcessing(S1, ch), "preempt_restart")

\* MessageQueue.buffer up to `await self.wait_tasks[channel_id]`.
buffer(S, ch, m) ==
    LET B == IF ch \in DOMAIN S.buffers
             THEN [S EXCEPT !.buffers[ch] = <<m>> \o @]
             ELSE [S EXCEPT !.buffers = DictSet(@, ch, <<m>>)]
    IN  IF ~is_buffering(B, ch)
        THEN IF FreeIds(B.wt) = {} \/ FreeIds(B.flows) = {}
             THEN [B EXCEPT !.over = TRUE]
             ELSE LET w == LowestFree(B.wt)
                      f == LowestFree(B.flows)
                  IN  Tag(Sched([B EXCEPT
                            !.wait_tasks = DictSet(@, ch, w),
                            !.wt[w] = [st |-> "new", ch |-> ch, ql |-> 0,
                                       ticks |-> 0, by |-> f, arrived |-> 0],
                            !.flows[f] = NewFlow("buf_wait", ch, m, FALSE)],
                          Handle("wt", w, FALSE, "none")), "buffer_started")
        ELSE Tag(B, "buffered")

\* Flush taking the oldest buffered message (pop() for popleft())
Flush_oldest(S, ch) ==
    LET W == [S EXCEPT !.wait_tasks = DictPop(@, ch)]
    IN  IF ch \in DOMAIN W.buffers /\ W.buffers[ch] # <<>>
        THEN LET b == W.buffers[ch]
                 P == [W EXCEPT !.buffers = DictPop(@, ch)]
             IN  IF settings.respond_to_latest_only
                 THEN appendleft(P, ch, Last(b))
                 ELSE extendleft(P, ch, b)
        ELSE W

\* MessageQueue.buffer after the await: the flush.
Flush(S, ch) ==
    LET W == [S EXCEPT !.wait_tasks = DictPop(@, ch)]
    IN  IF ch \in DOMAIN W.buffers /\ W.buffers[ch] # <<>>
        THEN LET b == W.buffers[ch]
                 P == [W EXCEPT !.buffers = DictPop(@, ch)]
             IN  IF settings.respond_to_latest_only
                 THEN appendleft(P, ch, Head(b))
                 ELSE extendleft(P, ch, b)
        ELSE W

\* The starter of an accumulation, woken when its wait task is done:
\* buffer returns True and process_messages goes on.
AfterBuffer(S, f) ==
    LET ch == S.flows[f].ch
        m == S.flows[f].m
        w == CHOOSE i \in DOMAIN S.wt : S.wt[i].st = "done" /\ S.wt[i].by = f
        S0 == [S EXCEPT !.flows[f] = FreeFlow, !.wt[w] = FreeWt]
        R == Preempt(Tag(Flush(S0, ch), "flushed"), ch, m, FALSE)
    IN  Tag(R, CASE R.tag = "task_started" -> "flushed_started"
                 [] R.tag = "preempting" -> "flushed_preempting"
                 [] OTHER -> "flushed")

\* Observation for the polling accumulation: every accumulation of ch that has
\* read its starting queue length and sleeps counts the messages
\* process_messages accepted for ch since then (wt[w].arrived is read by no
\* step of the program).
Arrive(S, ch) ==
    IF settings.continue_on_additional_messages = 0 THEN S
    ELSE [S EXCEPT !.wt = [w \in DOMAIN S.wt |->
                             IF S.wt[w].ch = ch /\ S.wt[w].st = "sleep"
                             THEN [S.wt[w] EXCEPT !.arrived = @ + 1]
                             ELSE S.wt[w]]]

\* process_messages without the test of is_panicking
process_messages_unchecked(S, ch, m) ==
    LET g == m \in S.guarantees[ch]
    IN  IF /\ settings.message_accumulation_period > 0
           /\ ~g
           /\ ~should_ignore_message(m)
        THEN buffer(Arrive(S, ch), ch, m)
        ELSE Preempt(appendleft(Arrive(S, ch), ch, m), ch, m, g)

\* process_messages from its entry to its first suspension or its end.
process_messages(S, ch, m) ==
    LET g == m \in S.guarantees[ch]
    IN  IF ~g /\ is_panicking(S, ch) THEN Tag(S, "dropped_panicking")
        ELSE IF /\ settings.message_accumulation_period > 0
                /\ ~g
                /\ ~should_ignore_message(m)
        THEN buffer(Arrive(S, ch), ch, m)
        ELSE Preempt(appendleft(Arrive(S, ch), ch, m), ch, m, g)

\* ------------------------------------------------------------ accumulation task
\* First step of _accumulate_messages, up to its first sleep.  The loop test
\* is true on entry (the period is positive), so both variants go to sleep.
WtStart(S, w) ==
    IF settings.continue_on_additional_messages > 0
    THEN [S EXCEPT !.wt[w].st = "sleep", !.wt[w].ql = get_queue_length(S, S.wt[w].ch)]
    ELSE [S EXCEPT !.wt[w].st = "sleep"]

WtDone(S, w) ==
    Sched([S EXCEPT !.wt[w].st = "done"], Handle("flow", S.wt[w].by, FALSE, "ok"))

\* the `while` test of _accumulate_messages, with queue_length as a parameter
AccumulateMore(S, w, queue_length, ticks) ==
    /\ get_queue_length(S, S.wt[w].ch)
          < queue_length + settings.continue_on_additional_messages + 1
    /\ ticks < settings.message_accumulation_period

\* A sleep of _accumulate_messages ends.  With continue_on_additional_messages
\* it is one 0.1 s poll: queue_length is re-read, then the loop test decides.
WtWake(S, w) ==
    IF settings.continue_on_additional_messages > 0
    THEN LET queue_length == get_queue_length(S, S.wt[w].ch)
             ticks == S.wt[w].ticks + 1
         IN  IF AccumulateMore(S, w, queue_length, ticks)
             THEN [S EXCEPT !.wt[w].ql = queue_length, !.wt[w].ticks = ticks]
             ELSE WtDone([S EXCEPT !.wt[w].ql = queue_length, !.wt[w].ticks = ticks], w)
    ELSE WtDone(S, w)

\* ------------------------------------------------------------ panic
\* MessageQueue._panic up to its sleep.  self.buffers.pop(channel_id) raises
\* KeyError when an accumulation is running and the channel has no buffer
\* entry; the exception is not caught and ends the task.
_panic(S, p) ==
    LET ch == S.pt[p].ch
    IN  IF is_buffering(S, ch) /\ ch \notin DOMAIN S.buffers
        THEN Tag(FinishPt(S, p, "error"), "panic_keyerror")
        ELSE LET B == IF is_buffering(S, ch)
                      THEN [S EXCEPT !.buffers = DictPop(@, ch)]
                      ELSE S
                 Q == IF get_queue_length(B, ch) > 0 THEN clear(B, ch) ELSE B
                 R == IF is_responding(Q, ch) THEN cancel_response_task(Q, ch) ELSE Q
             IN  Tag([R EXCEPT !.pt[p].st = "sleep"], "panicked")

\* One step of the panic task taken from the ready queue.  Cancelled before
\* its first step the coroutine never enters its try block and the task ends
\* cancelled; cancelled in its sleep it catches CancelledError and returns.
PtStep(S, p) ==
    CASE S.pt[p].st = "new" /\ S.pt[p].cancel -> FinishPt(S, p, "cancelled")
      [] S.pt[p].st = "new" /\ ~S.pt[p].cancel -> _panic(S, p)
      [] S.pt[p].st = "sleep" -> FinishPt(S, p, "ok")
      [] OTHER -> S

\* panic without the test of is_panicking
panic_unchecked(S, ch) ==
    IF FreeIds(S.pt) = {} THEN [S EXCEPT !.over = TRUE]
    ELSE LET p == LowestFree(S.pt)
         IN  Tag(Sched([S EXCEPT !.pt[p] = NewPt(ch),
                                 !.panic_tasks = DictSet(@, ch, p)],
                       Handle("pt", p, FALSE, "none")), "panic_created")

panic(S, ch) ==
    IF is_panicking(S, ch) THEN Tag(S, "panic_noop")
    ELSE IF FreeIds(S.pt) = {} THEN [S EXCEPT !.over = TRUE]
    ELSE LET p == LowestFree(S.pt)
         IN  Tag(Sched([S EXCEPT !.pt[p] = NewPt(ch),
                                 !.panic_tasks = DictSet(@, ch, p)],
                       Handle("pt", p, FALSE, "none")), "panic_created")

\* the done-callback panic() registers: lambda _: self.panic_tasks.pop(channel_id, None)
PanicDone(S, ch) == [S EXCEPT !.panic_tasks = DictPop(@, ch)]

\* on_poke after `await self.message_queue.calm_down(channel.id)`
PokeRest(S, ch, m) ==
    process_messages(guarantee_response(S, ch, m), ch, m)

\* on_poke up to the await inside calm_down
on_poke(S, ch, m) ==
    IF is_panicking(S, ch)
    THEN IF FreeIds(S.flows) = {} THEN [S EXCEPT !.over = TRUE]
         ELSE LET f == LowestFree(S.flows)
                  p == S.panic_tasks[ch]
                  C == CancelPt(S, p)
              IN  Tag([C EXCEPT !.flows[f] = NewFlow("calm_wait", ch, m, FALSE),
                                !.pt[p].waiters = Append(@, f)], "calming")
    ELSE PokeRest(S, ch, m)

\* calm_down's await returns, or raises what the panic task ended with
AfterCalm(S, f, res) ==
    LET S0 == [S EXCEPT !.flows[f] = FreeFlow]
    IN  IF res # "ok" THEN Tag(S0, "calm_raised")
        ELSE PokeRest(S0, S.flows[f].ch, S.flows[f].m)

on_message_delete(S, ch, m) ==
    LET U == unbuffer(S, ch, m)
    IN  IF contains_message(U, ch, m) THEN remove(U, ch, m) ELSE U

\* history: the deletion of m is reported while a response task of ch is
\* handling m and has not created the text sub-task yet
MarkGone(S, ch, m) ==
    [S EXCEPT !.rt = [i \in DOMAIN @ |->
                        IF @[i].ch = ch /\ @[i].cur = <<m>> /\ @[i].st = "prewait"
                        THEN [@[i] EXCEPT !.gone = TRUE] ELSE @[i]]]

\* ------------------------------------------------------------ parts of a response
\* What the steps of the queue leave alone, as it is while nothing runs.
\* render: the locals of _render_streaming_response (a message is its id,
\*   None is 0; the message being regenerated, when there is one, is message
\*   1) and the history of the run: where it stands (pc), the units consumed,
\*   the highest message id in use, what the last unit made the renderer do
\*   (empty, op, split, skipped), whether the filter asked to abort, the
\*   messages created and how the caller counted the response.
\* history: the arguments and the locals of _filtered_history_iterator, with
\*   the ids the repetition tracker returned to the caller, the oldest
\*   message that channel.history still returns, the next one it returns,
\*   and the messages yielded so far.  The messages of a channel are their
\*   ids, 1..MaxHistory, a larger id being more recent.
\* tracker: RepetitionTracker's state for one channel: the fingerprint of
\*   the last message logged, the length of the run of that fingerprint and
\*   the id of the run's first message, the throttle id (0 while not set);
\*   the id of the last message the bot sent, the messages handed to
\*   log_message, oldest first, and the number of responses.
\* decision: DecideToRespond's state for one channel: the cap on
\*   unsolicited responses (0: no cap), the time of the last logged mention,
\*   the unsolicited responses accepted since, the clock; the messages
\*   evaluated so far and the last of them with its outcome.
Idle ==
    [render |->
        [stream_responses |-> "", existing_message |-> FALSE,
         buffer |-> <<>>, response |-> <<>>, last_message |-> 0,
         message_to_log |-> 0, sent_message_count |-> 0,
         abort_response |-> FALSE,
         pc |-> "idle", units |-> 0, ids |-> 1, empty |-> FALSE,
         op |-> [kind |-> "none", id |-> 0, content |-> <<>>],
         split |-> FALSE, skipped |-> FALSE, aborted |-> FALSE,
         sends |-> 0, counted |-> "none"],
     history |->
        [repeated_id |-> 0, history_marker_id |-> 0,
         stop_before_message_id |-> 0, ignore_all_until_message_id |-> 1,
         limit |-> 1, oldest |-> 1, next |-> MaxHistory, items |-> 0,
         last_returned |-> 0, ignoring_all |-> TRUE, out |-> <<>>,
         pc |-> "idle"],
     tracker |->
        [fingerprint |-> "", run |-> 0, first |-> 0,
         throttle_message_id |-> 0,
         ids |-> 0, logged |-> <<>>, responses |-> 0],
     decision |->
        [unsolicited_channel_cap |-> 0, mentioned |-> FALSE,
         last_mention |-> 0, unsolicited |-> 0, now |-> 0, evaluated |-> 0,
         result |-> [kind |-> "none", should_respond |-> FALSE,
                     is_summon |-> FALSE, logged |-> FALSE,
                     after |-> "none"]]]

\* ------------------------------------------------------------ streaming renderer
\* A text is a sequence of characters.  Three kinds of character matter to
\* the renderer and to the filter: an ordinary one, a space, and one that
\* stands for a configured stop marker.  The stream units the backend can
\* yield are the texts within the character limit.
Units == UNION {[1..k -> {"a", " ", "S"}] : k \in 0..message_character_limit}

\* str.strip()
strip(s) ==
    LET solid == {i \in 1..Len(s) : s[i] # " "}
        lo == CHOOSE i \in solid : \A j \in solid : i <= j
        hi == CHOOSE i \in solid : \A j \in solid : i >= j
    IN  IF solid = {} THEN <<>> ELSE SubSeq(s, lo, hi)

\* ImmersionBreakingFilter.filter on a text of one line and one sentence: the
\* sentence is cut at the first stop marker, which aborts, and is dropped
\* when nothing but whitespace is left of it.
filter(text) ==
    LET marks == {i \in 1..Len(text) : text[i] = "S"}
        first == CHOOSE i \in marks : \A j \in marks : i <= j
        kept == IF marks = {} THEN text ELSE SubSeq(text, 1, first - 1)
    IN  [text |-> IF strip(kept) = <<>> THEN <<>> ELSE kept,
         abort |-> marks # {}]

\* TokenUnit without the filter: the response is the text received so far
TokenUnit_unfiltered(R, tokens) ==
    IF tokens = <<>>
    THEN [R EXCEPT !.skipped = TRUE]
    ELSE LET over == Len(strip(R.buffer \o tokens)) > message_character_limit
         IN  [R EXCEPT !.buffer = IF over THEN <<>> ELSE @ \o tokens,
                       !.response = (IF over THEN <<>> ELSE @) \o tokens,
                       !.last_message = IF over THEN 0 ELSE @,
                       !.split = over]

\* The body of the loop in token mode, down to the filtered response
TokenUnit(R, tokens) ==
    IF tokens = <<>>
    THEN [R EXCEPT !.skipped = TRUE]
    ELSE LET b == filter(R.buffer \o tokens)
             over == Len(strip(b.text)) > message_character_limit
             r == filter((IF over THEN <<>> ELSE R.response) \o tokens)
         IN  [R EXCEPT !.buffer = IF over THEN <<>> ELSE b.text,
                       !.response = r.text,
                       !.abort_response = r.abort,
                       !.last_message = IF over THEN 0 ELSE @,
                       !.split = over,
                       !.aborted = b.abort \/ r.abort]

\* SentenceUnit with every sentence starting a message of its own
SentenceUnit_discrete(R, tokens) ==
    LET f == filter(tokens)
        sentence == LET solid == {i \in 1..Len(f.text) : f.text[i] # " "}
                        hi == CHOOSE i \in solid : \A j \in solid : i >= j
                    IN  SubSeq(f.text, 1, hi) \o <<" ">>
    IN  IF f.text = <<>>
        THEN [R EXCEPT !.abort_response = f.abort, !.aborted = f.abort,
                       !.skipped = TRUE]
        ELSE [R EXCEPT !.abort_response = f.abort, !.aborted = f.abort,
                       !.response = sentence,
                       !.last_message = 0]

\* The body of the loop in sentence mode, down to the response
SentenceUnit(R, tokens) ==
    LET f == filter(tokens)
        sentence == LET solid == {i \in 1..Len(f.text) : f.text[i] # " "}
                        hi == CHOOSE i \in solid : \A j \in solid : i >= j
                    IN  SubSeq(f.text, 1, hi) \o <<" ">>
        over == Len(strip(R.response \o sentence)) > message_character_limit
    IN  IF f.text = <<>>
        THEN [R EXCEPT !.abort_response = f.abort, !.aborted = f.abort,
                       !.skipped = TRUE]
        ELSE [R EXCEPT !.abort_response = f.abort, !.aborted = f.abort,
                       !.response = (IF over THEN <<>> ELSE @) \o sentence,
                       !.last_message = IF over THEN 0 ELSE @,
                       !.split = over]

\* Post without the edit: every unit is sent as a new message
Post_resend(R) ==
    [R EXCEPT !.op = [kind |-> "send", id |-> R.ids + 1,
                      content |-> strip(R.response)],
              !.last_message = R.ids + 1,
              !.ids = @ + 1,
              !.sends = @ + 1,
              !.sent_message_count = @ + 1,
              !.message_to_log = IF R.sent_message_count = 0
                                 THEN R.ids + 1 ELSE @]

\* The send or the edit of the response so far, when Discord accepts it
Post(R) ==
    LET content == strip(R.response)
        count == IF R.last_message = 0 \/ R.sent_message_count = 0
                 THEN R.sent_message_count + 1 ELSE R.sent_message_count
        msg == IF R.last_message = 0 THEN R.ids + 1 ELSE R.last_message
    IN  [R EXCEPT !.op = [kind |-> IF R.last_message = 0 THEN "send" ELSE "edit",
                          id |-> msg, content |-> content],
                  !.last_message = msg,
                  !.ids = IF R.last_message = 0 THEN @ + 1 ELSE @,
                  !.sends = IF R.last_message = 0 THEN @ + 1 ELSE @,
                  !.sent_message_count = count,
                  !.message_to_log = IF count = 1 THEN msg ELSE @]

\* Counted without the test of the count
Counted_uncounted(R, raised) == IF raised THEN "failure" ELSE "success"

\* What the caller does with the renderer's result or with the exception of
\* Discord: _send_text_response_in_channel looks at the count, the
\* regeneration of an existing message does not.
Counted(R, raised) ==
    IF raised THEN "failure"
    ELSE IF ~R.existing_message /\ R.sent_message_count = 0 THEN "failure"
    ELSE "success"

\* One turn of the loop on one unit of the stream: the mode's branch, the
\* `continue` on an empty response, the send or the edit, which Discord
\* accepts or answers with an exception that goes to the caller, and the
\* break on abort, which returns to the caller
_render_streaming_response(R, tokens, raises) ==
    LET R0 == [R EXCEPT !.units = @ + 1, !.empty = (tokens = <<>>),
                        !.op = Idle.render.op, !.split = FALSE,
                        !.skipped = FALSE]
        R1 == IF R.stream_responses = "token" THEN TokenUnit(R0, tokens)
              ELSE SentenceUnit(R0, tokens)
        R2 == Post(R1)
    IN  IF R1.skipped \/ strip(R1.response) = <<>> THEN R1
        ELSE IF raises
        THEN [R1 EXCEPT !.pc = "raised", !.counted = Counted(R1, TRUE)]
        ELSE IF R2.abort_response
        THEN [R2 EXCEPT !.pc = "done", !.counted = Counted(R2, FALSE)]
        ELSE R2

\* What _generate_text_response returns for the renderer to consume: the
\* whole string, a stream of grouped tokens or a stream of sentences; with
\* neither as_string nor a stream mode `generator` was never assigned and
\* `return generator, response_stat` raises UnboundLocalError
generator(stream_responses, as_string) ==
    IF as_string THEN "string"
    ELSE IF stream_responses = "token" THEN "grouped_tokens"
    ELSE IF stream_responses = "sentence" THEN "by_message"
    ELSE "unbound"

\* ------------------------------------------------------------ history
\* `repeated_id or history_marker_id`
stop_before(repeated_id, history_marker_id) ==
    IF repeated_id # 0 THEN repeated_id ELSE history_marker_id

\* _filter_history_message: the message to yield (0 for None) and whether
\* the iteration goes on.  What it looks at in a message: an ordinary
\* message ("text"), one whose content is hidden, or one that is not of type
\* default or reply ("system").
_filter_history_message(stop_before_message_id, id, kind) ==
    IF stop_before_message_id # 0 /\ id = stop_before_message_id
    THEN [message |-> id, allow_more |-> FALSE]
    ELSE IF kind \in {"system", "hidden"}
    THEN [message |-> 0, allow_more |-> TRUE]
    ELSE [message |-> id, allow_more |-> TRUE]

\* ------------------------------------------------------------ repetition tracker
\* RepetitionTracker.log_message; the fingerprint of a message is its
\* normalized text
log_message(T, id, fingerprint) ==
    LET run == IF fingerprint = T.fingerprint THEN T.run + 1 ELSE 1
        first == IF fingerprint = T.fingerprint THEN T.first ELSE id
    IN  [T EXCEPT !.fingerprint = fingerprint,
                  !.run = run,
                  !.first = first,
                  !.throttle_message_id =
                      IF run >= repetition_threshold THEN first ELSE @]

\* LogRendered handing over the last message of the response
LogRendered_last(T, count, fingerprint) ==
    IF count = 0 THEN T
    ELSE log_message([T EXCEPT !.ids = @ + count], T.ids + count, fingerprint)

\* The end of _render_streaming_response with a response of the given
\* number of messages, the first of them with the given fingerprint, that
\* follows the last message sent: of a response of one or more messages
\* only the first is logged; of a response of none, nothing.
LogRendered(T, count, fingerprint) ==
    IF count = 0 THEN T
    ELSE log_message([T EXCEPT !.ids = @ + count], T.ids + 1, fingerprint)

\* ------------------------------------------------------------ decision engine
\* DecideToRespond.log_mention
log_mention(D, timestamp) ==
    [D EXCEPT !.mentioned = TRUE, !.last_mention = timestamp,
              !.unsolicited = 0]

\* DecideToRespond.should_respond_to_message on a message that is not
\* ignored: a summon is accepted as a summon; any other message is accepted,
\* not as a summon, when the channel was mentioned within the window and
\* the cap is not reached
should_respond_to_message(D, kind) ==
    LET recent == D.mentioned /\ D.now - D.last_mention <= MentionWindow
        under == D.unsolicited_channel_cap = 0
                   \/ D.unsolicited < D.unsolicited_channel_cap
    IN  IF kind = "summon"
        THEN [should_respond |-> TRUE, is_summon |-> TRUE, state |-> D]
        ELSE IF recent /\ under
        THEN [should_respond |-> TRUE, is_summon |-> FALSE,
              state |-> [D EXCEPT !.unsolicited = @ + 1]]
        ELSE [should_respond |-> FALSE, is_summon |-> FALSE, state |-> D]

\* LogSummon that never logs the mention
LogSummon_unlogged(D, public, empty, is_summon) == D

\* _send_text_response, down to the log of the mention: nothing for an
\* empty message, a mention for a summon in a guild or group channel
LogSummon(D, public, empty, is_summon) ==
    IF ~empty /\ public /\ is_summon THEN log_mention(D, D.now) ELSE D

\* ------------------------------------------------------------ specification
Settings ==
    [message_accumulation_period : {0, PeriodTicks},
     continue_on_additional_messages : {0, 1},
     respond_to_latest_only : BOOLEAN,
     skip_in_progress_responses : BOOLEAN,
     image_generator : BOOLEAN]

\* continue_on_additional_messages is only read during an accumulation
ValidSettings ==
    {c \in Settings : c.message_accumulation_period = 0
                        => c.continue_on_additional_messages = 0}

InitCore ==
    /\ queues = <<>>
    /\ buffers = <<>>
    /\ response_tasks = <<>>
    /\ wait_tasks = <<>>
    /\ panic_tasks = <<>>
    /\ guarantees = [ch \in Channels |-> {}]
    /\ rt = [i \in TaskIds |-> FreeRt]
    /\ wt = [i \in TaskIds |-> FreeWt]
    /\ pt = [i \in TaskIds |-> FreePt]
    /\ flows = [i \in FlowIds |-> FreeFlow]
    /\ ready = <<>>
    /\ pending = [ch \in Channels |-> {}]
    /\ used = [n |-> 0, maxm |-> 0, gone |-> {}]
    /\ log = "none"
    /\ stats = NoStats

\* Nothing is being rendered
InitState ==
    /\ InitCore
    /\ render = Idle.render
    /\ history = Idle.history
    /\ tracker = Idle.tracker
    /\ decision = Idle.decision

\* No accumulation: every message is queued directly.  No image generator
\* is configured (self.image_generator is None).
DirectSettings ==
    {c \in ValidSettings : /\ c.message_accumulation_period = 0
                           /\ ~c.image_generator}

\* DirectSettings with an image generator
ImageSettings ==
    {c \in ValidSettings : /\ c.message_accumulation_period = 0
                           /\ c.image_generator}

\* Accumulation with a single sleep of the whole period.
AccumSettings ==
    {c \in ValidSettings : /\ c.message_accumulation_period > 0
                           /\ c.continue_on_additional_messages = 0
                           /\ ~c.image_generator}

\* Single-sleep accumulation that keeps only the latest message and preempts.
LatestSettings ==
    {c \in AccumSettings : /\ c.respond_to_latest_only
                           /\ c.skip_in_progress_responses}

\* Accumulation that polls the queue length every 0.1 s.
PollSettings ==
    {c \in ValidSettings : /\ c.message_accumulation_period > 0
                           /\ c.continue_on_additional_messages > 0
                           /\ c.skip_in_progress_responses
                           /\ ~c.respond_to_latest_only
                           /\ ~c.image_generator}

Init ==
    /\ live = {1}
    /\ settings \in DirectSettings
    /\ InitState

InitAccum ==
    /\ live = {1}
    /\ settings \in AccumSettings
    /\ InitState

InitLatest ==
    /\ live = {1}
    /\ settings \in LatestSettings
    /\ InitState

\* two channels receive events
InitTwo ==
    /\ live = Channels
    /\ settings \in LatestSettings
    /\ InitState

InitPoll ==
    /\ live = {1}
    /\ settings \in PollSettings
    /\ InitState

\* an image generator is configured
InitImage ==
    /\ live = {1}
    /\ settings \in ImageSettings
    /\ InitState

\* An outside event can run when the ready queue is at a boundary between
\* groups of handles that were queued together.
CanInterleave == IF ready = <<>> THEN TRUE ELSE ~Head(ready).glued

Max(a, b) == IF a >= b THEN a ELSE b

\* Message ids are handed out in order: a delivery brings the next new
\* message, or one seen before.  used.gone remembers the messages reported
\* deleted while buffered or queued, until they are delivered again.
Deliver(ch, m) ==
    /\ used.n < MaxEvents
    /\ m <= used.maxm + 1
    /\ used' = [n |-> used.n + 1, maxm |-> Max(used.maxm, m),
                gone |-> used.gone \ {<<ch, m>>}]

\* the deletion of message m of ch is reported
Deleted(ch, m) ==
    /\ used.n < MaxEvents
    /\ used' = [used EXCEPT !.n = @ + 1,
                            !.gone = IF \/ contains_message(Cur, ch, m)
                                        \/ (ch \in DOMAIN buffers /\ Contains(buffers[ch], m))
                                     THEN @ \cup {<<ch, m>>} ELSE @]

Event ==
    /\ used.n < MaxEvents
    /\ used' = [used EXCEPT !.n = @ + 1]

\* on_message: a new message, or one dispatched again (the /poke command)
OnMessage(ch, m) ==
    /\ CanInterleave
    /\ Deliver(ch, m)
    /\ Commit(process_messages(Cur, ch, m))
    /\ UNCHANGED <<live, settings>>

OnPoke(ch, m) ==
    /\ CanInterleave
    /\ Deliver(ch, m)
    /\ Commit(on_poke(Cur, ch, m))
    /\ UNCHANGED <<live, settings>>

\* on_unpoke
OnUnpoke(ch) ==
    /\ CanInterleave
    /\ Event
    /\ Commit(panic(Cur, ch))
    /\ UNCHANGED <<live, settings>>

OnMessageDelete(ch, m) ==
    /\ CanInterleave
    /\ Deleted(ch, m)
    /\ m <= used.maxm
    /\ Commit(Tag(MarkGone(on_message_delete(Cur, ch, m), ch, m), "deleted"))
    /\ UNCHANGED <<live, settings>>

\* _handle_response gets past its first awaits and waits on its sub-tasks
RtSubtask(id) ==
    /\ CanInterleave
    /\ rt[id].st = "prewait" /\ ~rt[id].cancel
    /\ Commit([Cur EXCEPT !.rt[id].st = "wait"])
    /\ UNCHANGED <<live, settings, used>>

\* _handle_response returns without any exception having been raised, and
\* the loop of _process_message_queue goes on
RtHandled(id, c) ==
    /\ CanInterleave
    /\ rt[id].st \in {"prewait", "wait", "cleanup"} /\ ~rt[id].cancel
    /\ c.out = "ok"
    /\ ResumeChoiceOK(Cur, id, c)
    /\ Commit(Resume(Cur, id, c))
    /\ UNCHANGED <<live, settings, used>>

\* the backend or Discord fails: an exception is raised in _handle_response
\* or in its text sub-task
RtFailed(id, c) ==
    /\ CanInterleave
    /\ rt[id].st \in {"prewait", "wait"} /\ ~rt[id].cancel
    /\ c.out # "ok"
    /\ ResumeChoiceOK(Cur, id, c)
    /\ Commit(Resume(Cur, id, c))
    /\ UNCHANGED <<live, settings, used>>

\* a sub-task that _handle_response left running sends its message and ends
SubtaskDone(ch, k) ==
    /\ CanInterleave
    /\ k \in pending[ch]
    /\ Commit(Tag(Calls([Cur EXCEPT !.pending[ch] = @ \ {k}], {"send"}),
                  "subtask_done"))
    /\ UNCHANGED <<live, settings, used>>

WtTimer(w) ==
    /\ CanInterleave
    /\ wt[w].st = "sleep"
    /\ Commit(WtWake(Cur, w))
    /\ UNCHANGED <<live, settings, used>>

\* panic_duration has elapsed
PtTimer(p) ==
    /\ CanInterleave
    /\ pt[p].st = "sleep" /\ ~pt[p].cancel
    /\ Commit(Tag(FinishPt(Cur, p, "ok"), "panic_elapsed"))
    /\ UNCHANGED <<live, settings, used>>

\* ---- the event loop runs the handle at the head of the ready queue
Popped == [Cur EXCEPT !.ready = Tail(@)]

RunRt(c) ==
    /\ ready # <<>> /\ Head(ready).k = "rt"
    /\ RtStepChoiceOK(Popped, Head(ready).id, c)
    /\ Commit(RtStep(Popped, Head(ready).id, c))
    /\ UNCHANGED <<live, settings, used>>

RunRtCallback ==
    /\ ready # <<>> /\ Head(ready).k = "rt_cb"
    /\ LET id == Head(ready).id
           ch == rt[id].ch
           D == [_done_callback(Popped, ch) EXCEPT !.rt[id] = FreeRt]
       IN  Commit(Tag(D, IF ch \in DOMAIN queues /\ ch \notin DOMAIN D.queues
                         THEN "callback_dropped_queue" ELSE "callback"))
    /\ UNCHANGED <<live, settings, used>>

RunPt ==
    /\ ready # <<>> /\ Head(ready).k = "pt"
    /\ Commit(PtStep(Popped, Head(ready).id))
    /\ UNCHANGED <<live, settings, used>>

RunPtCallback ==
    /\ ready # <<>> /\ Head(ready).k = "pt_cb"
    /\ LET id == Head(ready).id
       IN  Commit([PanicDone(Popped, pt[id].ch) EXCEPT !.pt[id] = FreePt])
    /\ UNCHANGED <<live, settings, used>>

RunWt ==
    /\ ready # <<>> /\ Head(ready).k = "wt"
    /\ Commit(WtStart(Popped, Head(ready).id))
    /\ UNCHANGED <<live, settings, used>>

WakeBuffer ==
    /\ ready # <<>> /\ Head(ready).k = "flow"
    /\ flows[Head(ready).id].st = "buf_wait"
    /\ Commit(AfterBuffer(Popped, Head(ready).id))
    /\ UNCHANGED <<live, settings, used>>

WakePreempt ==
    /\ ready # <<>> /\ Head(ready).k = "flow"
    /\ flows[Head(ready).id].st = "cancel_wait"
    /\ Commit(AfterPreempt(Popped, Head(ready).id, Head(ready).res))
    /\ UNCHANGED <<live, settings, used>>

WakeCalm ==
    /\ ready # <<>> /\ Head(ready).k = "flow"
    /\ flows[Head(ready).id].st = "calm_wait"
    /\ Commit(AfterCalm(Popped, Head(ready).id, Head(ready).res))
    /\ UNCHANGED <<live, settings, used>>

\* Steps of the accumulation machinery
AccumNext ==
    \/ \E w \in TaskIds : WtTimer(w)
    \/ RunWt
    \/ WakeBuffer

\* Every other step
Next ==
    \/ \E ch \in live, m \in Msgs : OnMessage(ch, m)
    \/ \E ch \in live, m \in Msgs : OnPoke(ch, m)
    \/ \E ch \in live : OnUnpoke(ch)
    \/ \E ch \in live, m \in Msgs : OnMessageDelete(ch, m)
    \/ \E id \in TaskIds : RtSubtask(id)
    \/ \E id \in TaskIds, c \in LoopChoices : RtHandled(id, c)
    \/ \E p \in TaskIds : PtTimer(p)
    \/ \E c \in LoopChoices \cup StageChoices : RunRt(c)
    \/ RunRtCallback
    \/ RunPt
    \/ RunPtCallback
    \/ WakePreempt
    \/ WakeCalm

NextAccum == Next \/ AccumNext

\* Steps in which the backend or Discord fails
NextFault ==
    \/ Next
    \/ \E id \in TaskIds, c \in FailChoices : RtFailed(id, c)

\* Steps of the sub-tasks that outlive _handle_response
NextImage ==
    \/ NextFault
    \/ \E ch \in live, k \in {"text", "image"} : SubtaskDone(ch, k)

\* message_accumulation_period = 0: no accumulation step is ever enabled
Spec == Init /\ [][Next]_vars

\* message_accumulation_period > 0, continue_on_additional_messages = 0
SpecAccum == InitAccum /\ [][NextAccum]_vars

\* SpecAccum with respond_to_latest_only and skip_in_progress_responses set
SpecLatest == InitLatest /\ [][NextAccum]_vars

\* Spec with failures of the backend and of Discord
SpecFault == Init /\ [][NextFault]_vars

\* SpecFault with an image generator
SpecImage == InitImage /\ [][NextImage]_vars

\* SpecLatest with events in two channels
SpecTwo == InitTwo /\ [][NextAccum]_vars

\* message_accumulation_period > 0, continue_on_additional_messages > 0
SpecPoll == InitPoll /\ [][NextAccum]_vars

\* ------------------------------------------------------------ rendering steps
\* The backend yields the next unit of the stream; Discord accepts what the
\* renderer sends, or raises on the send or the edit
RenderUnit(tokens, raises) ==
    /\ render.pc = "loop"
    /\ render.units < MaxUnits
    /\ render' = _render_streaming_response(render, tokens, raises)
    /\ raises => render'.pc = "raised"
    /\ UNCHANGED <<coreVars, history, tracker, decision>>

\* The caller asks _generate_text_response for the response, as both callers
\* do without as_string, and hands what it returns to the renderer; an
\* exception raised there is none that the caller catches
RenderStart ==
    /\ render.pc = "generate"
    /\ render' = [render EXCEPT
                     !.pc = IF generator(render.stream_responses, FALSE) = "unbound"
                            THEN "unbound" ELSE "loop"]
    /\ UNCHANGED <<coreVars, history, tracker, decision>>

\* The stream ends: the renderer returns its count to the caller
RenderEnd ==
    /\ render.pc = "loop"
    /\ render' = [render EXCEPT !.pc = "done",
                                !.counted = Counted(render, FALSE)]
    /\ UNCHANGED <<coreVars, history, tracker, decision>>

\* A response is about to be generated and rendered, with streaming off, in
\* token or in sentence mode, as a new message or in place of an existing one
InitRender ==
    /\ live = {1}
    /\ settings \in {c \in DirectSettings : /\ ~c.respond_to_latest_only
                                            /\ ~c.skip_in_progress_responses}
    /\ InitCore
    /\ render \in {[Idle.render EXCEPT
                       !.pc = "generate",
                       !.stream_responses = mode,
                       !.existing_message = existing,
                       !.last_message = IF existing THEN 1 ELSE 0] :
                     mode \in {"", "token", "sentence"},
                     existing \in BOOLEAN}
    /\ history = Idle.history
    /\ tracker = Idle.tracker
    /\ decision = Idle.decision

NextRender ==
    \/ RenderStart
    \/ \E tokens \in Units, raises \in BOOLEAN : RenderUnit(tokens, raises)
    \/ RenderEnd

\* One response rendered from a stream
SpecRender == InitRender /\ [][NextRender]_vars

\* ------------------------------------------------------------ history steps
\* one turn of the loop without the test of `items` against `limit`
HistoryItem_unlimited(kind) ==
    LET H == history
        id == H.next
        H1 == [H EXCEPT !.next = @ - 1]
        f == _filter_history_message(H.stop_before_message_id, id, kind)
        H2 == [H1 EXCEPT !.ignoring_all = FALSE, !.last_returned = id,
                         !.out = IF f.message # 0 THEN Append(@, f.message)
                                 ELSE @,
                         !.items = IF f.message # 0 THEN @ + 1 ELSE @]
    IN  /\ history.pc = "iter"
        /\ history.next >= history.oldest
        /\ history' =
             IF H.ignoring_all /\ id # H.ignore_all_until_message_id
             THEN H1
             ELSE IF kind = "hidden" THEN [H1 EXCEPT !.ignoring_all = FALSE]
             ELSE IF f.allow_more THEN H2
             ELSE [H2 EXCEPT !.pc = "done"]
        /\ UNCHANGED <<coreVars, render, tracker, decision>>

\* channel.history returns its next message, of the given kind: one turn of
\* the loop of _filtered_history_iterator
HistoryItem(kind) ==
    LET H == history
        id == H.next
        H1 == [H EXCEPT !.next = @ - 1]
        f == _filter_history_message(H.stop_before_message_id, id, kind)
        H2 == [H1 EXCEPT !.ignoring_all = FALSE, !.last_returned = id,
                         !.out = IF f.message # 0 THEN Append(@, f.message)
                                 ELSE @,
                         !.items = IF f.message # 0 THEN @ + 1 ELSE @]
    IN  /\ history.pc = "iter"
        /\ history.next >= history.oldest
        /\ history' =
             IF H.items >= H.limit THEN [H1 EXCEPT !.pc = "done"]
             ELSE IF H.ignoring_all /\ id # H.ignore_all_until_message_id
             THEN H1
             ELSE IF kind = "hidden" THEN [H1 EXCEPT !.ignoring_all = FALSE]
             ELSE IF f.allow_more THEN H2
             ELSE [H2 EXCEPT !.pc = "done"]
        /\ UNCHANGED <<coreVars, render, tracker, decision>>

\* channel.history is exhausted; the last message looked at may be a reply
\* to a message that was not returned, which is added when there is room
HistoryEnd(reference, kind) ==
    LET H == history
        f == _filter_history_message(H.stop_before_message_id, reference, kind)
        tail == /\ H.last_returned # 0
                /\ H.items < H.limit
                /\ reference # 0
                /\ f.message # 0
    IN  /\ history.pc = "iter"
        /\ history.next < history.oldest
        /\ reference < history.oldest
        /\ history' = [H EXCEPT !.pc = "done",
                                !.out = IF tail THEN Append(@, f.message)
                                        ELSE @,
                                !.items = IF tail THEN @ + 1 ELSE @]
        /\ UNCHANGED <<coreVars, render, tracker, decision>>

\* The history of a channel is about to be read for a response to one of
\* its messages
InitHistory ==
    /\ live = {1}
    /\ settings \in {c \in DirectSettings : /\ ~c.respond_to_latest_only
                                            /\ ~c.skip_in_progress_responses}
    /\ InitCore
    /\ render = Idle.render
    /\ history \in {[Idle.history EXCEPT
                        !.pc = "iter",
                        !.repeated_id = r,
                        !.history_marker_id = h,
                        !.stop_before_message_id = stop_before(r, h),
                        !.ignore_all_until_message_id = i,
                        !.limit = n,
                        !.oldest = o] :
                      r \in 0..MaxHistory, h \in 0..MaxHistory,
                      i \in 1..MaxHistory, n \in 1..MaxHistory,
                      o \in 1..MaxHistory}
    /\ tracker = Idle.tracker
    /\ decision = Idle.decision

NextHistory ==
    \/ \E kind \in {"text", "hidden", "system"} : HistoryItem(kind)
    \/ \E reference \in 0..MaxHistory, kind \in {"text", "hidden", "system"} :
          HistoryEnd(reference, kind)

\* The history of one channel read for one response
SpecHistory == InitHistory /\ [][NextHistory]_vars

\* ------------------------------------------------------------ tracker steps
\* One response is rendered in the channel and logged
Respond(count, fingerprint) ==
    /\ tracker.responses < MaxEvents + 1
    /\ tracker' = [LogRendered(tracker, count, fingerprint) EXCEPT
                      !.responses = @ + 1,
                      !.logged = IF count = 0 THEN @
                                 ELSE Append(@, [id |-> tracker.ids + 1,
                                                 fingerprint |-> fingerprint])]
    /\ UNCHANGED <<coreVars, render, history, decision>>

NextTracker ==
    \E count \in 0..2, fingerprint \in {"x", "y"} : Respond(count, fingerprint)

\* The responses of one channel as the repetition tracker sees them
SpecTracker == Init /\ [][NextTracker]_vars

\* ------------------------------------------------------------ decision steps
\* The response task pops a message and decides about it, then starts the
\* response to an accepted message (_process_message_queue); or a user
\* pokes a message of the channel, which logs a mention (on_poke)
Decide(kind, public, empty) ==
    LET D == decision
        r == should_respond_to_message(D, kind)
        D1 == IF kind = "poke" THEN log_mention(D, D.now)
              ELSE IF r.should_respond
              THEN LogSummon(r.state, public, empty, r.is_summon)
              ELSE r.state
    IN  /\ decision.evaluated < MaxEvents
        /\ kind = "poke" => (public /\ ~empty)
        /\ decision' =
             [D1 EXCEPT
                !.evaluated = @ + 1,
                !.result =
                    [kind |-> kind,
                     should_respond |-> kind # "poke" /\ r.should_respond,
                     is_summon |-> kind # "poke" /\ r.is_summon,
                     logged |-> /\ kind # "poke"
                                /\ r.should_respond /\ r.is_summon
                                /\ public /\ ~empty,
                     after |-> D.result.kind]]
        /\ UNCHANGED <<coreVars, render, history, tracker>>

\* Time passes
DecideTick ==
    /\ decision.now < MaxEvents
    /\ decision' = [decision EXCEPT !.now = @ + 1]
    /\ UNCHANGED <<coreVars, render, history, tracker>>

\* A channel that was never mentioned, under each cap
InitDecision ==
    /\ live = {1}
    /\ settings \in {c \in DirectSettings : /\ ~c.respond_to_latest_only
                                            /\ ~c.skip_in_progress_responses}
    /\ InitCore
    /\ render = Idle.render
    /\ history = Idle.history
    /\ tracker = Idle.tracker
    /\ decision \in {[Idle.decision EXCEPT !.unsolicited_channel_cap = cap] :
                       cap \in 0..2}

NextDecision ==
    \/ \E kind \in {"summon", "unsolicited", "poke"}, public \in BOOLEAN,
          empty \in BOOLEAN : Decide(kind, public, empty)
    \/ DecideTick

\* The decisions about the messages of one channel
SpecDecision == InitDecision /\ [][NextDecision]_vars

\* ------------------------------------------------------------ observations
\* response tasks of ch that were created and have not finished
ActiveRt(ch) == {i \in TaskIds : rt[i].ch = ch /\ rt[i].st \notin {"free", "done"}}
\* accumulation timers of ch that are pending
PendingWt(ch) == {w \in TaskIds : wt[w].ch = ch /\ wt[w].st \in {"new", "sleep"}}
\* panic tasks of ch that have not finished
PendingPt(ch) == {p \in TaskIds : pt[p].ch = ch /\ pt[p].st \in {"new", "sleep"}}

QueueOf(ch) == IF ch \in DOMAIN queues THEN queues[ch] ELSE <<>>
BufferOf(ch) == IF ch \in DOMAIN buffers THEN buffers[ch] ELSE <<>>
Occurrences(s, m) == Cardinality({i \in 1..Len(s) : s[i] = m})

\* everything MessageQueue and the handlers keep for channel ch
ChannelState(ch) ==
    [queue |-> IF ch \in DOMAIN queues THEN <<queues[ch]>> ELSE <<>>,
     buffer |-> IF ch \in DOMAIN buffers THEN <<buffers[ch]>> ELSE <<>>,
     response_task |-> IF ch \in DOMAIN response_tasks THEN response_tasks[ch] ELSE 0,
     wait_task |-> IF ch \in DOMAIN wait_tasks THEN wait_tasks[ch] ELSE 0,
     panic_task |-> IF ch \in DOMAIN panic_tasks THEN panic_tasks[ch] ELSE 0,
     rt |-> [i \in TaskIds |-> IF rt[i].ch = ch THEN rt[i] ELSE FreeRt],
     wt |-> [i \in TaskIds |-> IF wt[i].ch = ch THEN wt[i] ELSE FreeWt],
     pt |-> [i \in TaskIds |-> IF pt[i].ch = ch THEN pt[i] ELSE FreePt],
     guarantees |-> guarantees[ch],
     pending |-> pending[ch]]

\* the channel of the task or coroutine the event loop runs next
HeadChannel ==
    IF ready = <<>> THEN 0
    ELSE LET h == Head(ready)
         IN  CASE h.k \in {"rt", "rt_cb"} -> rt[h.id].ch
               [] h.k \in {"pt", "pt_cb"} -> pt[h.id].ch
               [] h.k = "wt" -> wt[h.id].ch
               [] OTHER -> flows[h.id].ch

\* what a step of RtHandled or RtFailed leaves in log
ResumeTags ==
    {"handled", "error_caught", "task_failed", "subtask_error", "send_failed",
     "cancel_handled"}

\* a step of the program made for channel ch: a handler called for it, or a
\* step of one of its tasks
StepFor(ch) ==
    \/ \E m \in Msgs : OnMessage(ch, m) \/ OnPoke(ch, m) \/ OnMessageDelete(ch, m)
    \/ OnUnpoke(ch)
    \/ \E id \in TaskIds :
          /\ rt[id].ch = ch
          /\ \/ RtSubtask(id)
             \/ /\ log' \in ResumeTags
                /\ \E c \in Choices : RtHandled(id, c) \/ RtFailed(id, c)
    \/ \E k \in {"text", "image"} : SubtaskDone(ch, k)
    \/ \E w \in TaskIds : wt[w].ch = ch /\ WtTimer(w)
    \/ \E p \in TaskIds : pt[p].ch = ch /\ PtTimer(p)
    \/ /\ HeadChannel = ch
       /\ \/ \E c \in Choices : RunRt(c)
          \/ RunRtCallback \/ RunPt \/ RunPtCallback \/ RunWt
          \/ WakeBuffer \/ WakePreempt \/ WakeCalm

\* the handle the event loop runs next
HeadIs(k) == IF ready = <<>> THEN FALSE ELSE Head(ready).k = k
HeadId == Head(ready).id

\* ------------------------------------------------------------ claims

\* C1: for every channel at most one response task that has not finished
\* exists at any time.
C1_OneResponseTask ==
    \A ch \in Channels : Cardinality(ActiveRt(ch)) <= 1

\* the panic task p runs its first step (it enters _panic)
PanicFirstStep(p) ==
    /\ HeadIs("pt") /\ HeadId = p
    /\ pt[p].st = "new" /\ ~pt[p].cancel
    /\ pt'[p].st # "new"

\* C2: once the panic task of ch has run its first step, ch's buffer and ch's
\* queue are empty, cancellation has been requested on every response task of
\* ch that was still running, and ch is panicking.
C2_PanicClears ==
    [][\A p \in TaskIds, ch \in Channels :
          (PanicFirstStep(p) /\ pt[p].ch = ch)
              => /\ BufferOf(ch)' = <<>>
                 /\ QueueOf(ch)' = <<>>
                 /\ \A i \in ActiveRt(ch) : rt'[i].cancel
                 /\ is_panicking(Cur, ch)']_vars

\* C3: a message outside its channel's guaranteed set that is passed to
\* process_messages while the channel is panicking changes nothing: no buffer,
\* no queue, no accumulation timer, no response task.
C3_DroppedWhilePanicking ==
    [][\A ch \in Channels, m \in Msgs :
          (OnMessage(ch, m) /\ m \notin guarantees[ch] /\ is_panicking(Cur, ch))
              => UNCHANGED progVars]_vars

\* a panic task of some channel is pending and a message was just dropped
C3_Witness ==
    /\ log = "dropped_panicking"
    /\ \E ch \in Channels : is_panicking(Cur, ch)

\* the flow parked at `await cancelled_task` is resumed
PreemptResumed(f) ==
    /\ HeadIs("flow") /\ HeadId = f
    /\ flows[f].st = "cancel_wait"
    /\ flows'[f].st # "cancel_wait"

\* C4: when the flow that cancelled a response task is resumed after that task
\* has finished and the channel's queue is non-empty, a response task of the
\* channel is running when process_messages ends.
C4_RestartAfterPreempt ==
    [][\A f \in FlowIds, ch \in Channels :
          (PreemptResumed(f) /\ flows[f].ch = ch /\ QueueOf(ch) # <<>>)
              => ActiveRt(ch)' # {}]_vars

\* C5: no message ever occurs twice in a channel's queue.
C5_NoDuplicateInQueue ==
    \A ch \in Channels : \A m \in Msgs : Occurrences(QueueOf(ch), m) <= 1

\* C6: at most one accumulation timer per channel is pending at any time.
C6_OneAccumulationTimer ==
    \A ch \in Channels : Cardinality(PendingWt(ch)) <= 1

\* the starter of an accumulation is resumed: the flush
FlushStep(f) ==
    /\ HeadIs("flow") /\ HeadId = f
    /\ flows[f].st = "buf_wait"
    /\ flows'[f].st # "buf_wait"

\* C7 as stated: with respond_to_latest_only, the flush into an empty queue
\* leaves exactly one message in the queue and no buffer entry.
C7_FlushLeavesOne ==
    [][\A f \in FlowIds, ch \in Channels :
          (FlushStep(f) /\ flows[f].ch = ch /\ settings.respond_to_latest_only
                        /\ QueueOf(ch) = <<>>)
              => /\ Len(QueueOf(ch)') = 1
                 /\ ch \notin DOMAIN buffers']_vars

\* C7 amended: with respond_to_latest_only, the flush into an empty queue of
\* a buffer that still holds a message leaves exactly the most recently
\* buffered message that was not unbuffered (the leftmost of the buffer) in
\* the queue and no buffer entry; with no buffered message left the queue
\* stays empty.
C7_FlushLeavesLatest ==
    [][\A f \in FlowIds, ch \in Channels :
          (FlushStep(f) /\ flows[f].ch = ch /\ settings.respond_to_latest_only
                        /\ QueueOf(ch) = <<>>)
              => IF BufferOf(ch) # <<>>
                 THEN /\ QueueOf(ch)' = <<Head(BufferOf(ch))>>
                      /\ ch \notin DOMAIN buffers'
                 ELSE QueueOf(ch)' = <<>>]_vars

\* messages 1 and 2 were buffered, and the flush with respond_to_latest_only
\* has just left message 2 alone in the queue
C7_Witness ==
    /\ log = "flushed_started"
    /\ settings.respond_to_latest_only
    /\ used.n = 2 /\ used.maxm = 2
    /\ \E ch \in Channels : QueueOf(ch) = <<2>> /\ ch \notin DOMAIN buffers

\* the accumulation w wakes from a 0.1 s poll
PollStep(w) ==
    /\ wt[w].st = "sleep"
    /\ wt'[w].ticks = wt[w].ticks + 1

\* C8: with continue_on_additional_messages = N > 0 the accumulation wait
\* ends at the first poll after N further messages have arrived for the
\* channel since the wait began.
C8_WaitEndsOnMessages ==
    [][\A w \in TaskIds :
          (PollStep(w) /\ settings.continue_on_additional_messages > 0
                       /\ wt[w].arrived >= settings.continue_on_additional_messages)
              => wt'[w].st = "done"]_vars

\* C9: panic(ch) while ch is panicking changes nothing: no second panic task,
\* the pending one untouched, queue, buffer and response task as they were.
C9_PanicIdempotent ==
    [][\A ch \in Channels :
          (OnUnpoke(ch) /\ is_panicking(Cur, ch)) => UNCHANGED progVars]_vars

\* panic was just called on a channel whose panic task is pending
C9_Witness ==
    /\ log = "panic_noop"
    /\ \E ch \in Channels : is_panicking(Cur, ch) /\ Cardinality(PendingPt(ch)) = 1

\* C10: calm_down returns normally: the coroutine awaiting the cancelled
\* panic task is never resumed with that task's exception.
C10_CalmDownReturns ==
    \A i \in 1..Len(ready) :
        (ready[i].k = "flow" /\ flows[ready[i].id].st = "calm_wait")
            => ready[i].res = "ok"

\* C11: a step made for channel A (panic, calm_down, buffer, unbuffer,
\* cancel_response_task, any queue operation, any step of A's tasks) leaves
\* the queue, buffer, accumulation timer, response task and panic task of
\* every other channel B unchanged.
C11_ChannelIsolation ==
    [][\A A \in Channels, B \in Channels :
          (A # B /\ StepFor(A)) => ChannelState(B)' = ChannelState(B)]_vars

\* the panic task of one channel has just cleared that channel while another
\* channel holds a queue and a running response task
C11_Witness ==
    /\ log = "panicked"
    /\ \E A \in Channels, B \in Channels :
          /\ A # B
          /\ is_panicking(Cur, A)
          /\ QueueOf(B) # <<>>
          /\ ActiveRt(B) # {}

\* C12: a message reported deleted while it was in its channel's buffer or
\* queue is in neither from then on, so it is neither flushed into the queue
\* nor popped for response handling.
C12_DeletedStaysOut ==
    \A d \in used.gone :
        /\ ~Contains(QueueOf(d[1]), d[2])
        /\ ~Contains(BufferOf(d[1]), d[2])

\* C13: whenever a channel has no response task that is running or whose
\* completion callback is pending, the queue map holds no empty queue for it.
C13_NoEmptyQueueWhenIdle ==
    \A ch \in Channels :
        (\A i \in TaskIds : rt[i].ch # ch)
            => ~(ch \in DOMAIN queues /\ queues[ch] = <<>>)

\* the completion callback of a channel's last response task has just dropped
\* the queue the task had drained
C13_Witness ==
    /\ log = "callback_dropped_queue"
    /\ queues = <<>>
    /\ \A i \in TaskIds : rt[i].st = "free"

\* the completion callback of response task id runs
CallbackStep(id) ==
    /\ HeadIs("rt_cb") /\ HeadId = id
    /\ rt[id].st = "done"
    /\ rt'[id].st = "free"

\* C14: when the completion callback of a finished response task has run,
\* the response-task map holds neither that task nor any finished task for
\* the channel, and the channel has no empty queue entry.
C14_CallbackCleansUp ==
    [][\A id \in TaskIds, ch \in Channels :
          (CallbackStep(id) /\ rt[id].ch = ch)
              => /\ ch \in DOMAIN response_tasks'
                      => /\ response_tasks'[ch] # id
                         /\ rt'[response_tasks'[ch]].st # "done"
                 /\ ~(ch \in DOMAIN queues' /\ queues'[ch] = <<>>)]_vars

\* the completion callback of a cancelled response task has just run: the
\* coroutine that awaited the task is woken next
C14_Witness ==
    /\ log \in {"callback", "callback_dropped_queue"}
    /\ response_tasks = <<>>
    /\ HeadIs("flow")
    /\ Head(ready).res = "cancelled"

\* C15: whenever a channel's queue is empty and no response task is running
\* for it, the channel's guaranteed-response set is empty.
C15_NoGuaranteeLeftBehind ==
    \A ch \in Channels :
        (QueueOf(ch) = <<>> /\ ActiveRt(ch) = {}) => guarantees[ch] = {}

\* C16: _handle_response returns only after every sub-task it launched has
\* completed: at no time is a sub-task running whose _handle_response has
\* returned, so the response task pops the next message, or finishes, with
\* no sub-task of the previous message running.
C16_SubtasksAwaited ==
    \A ch \in Channels : pending[ch] = {}

\* C17: the step in which a response task waiting on its sub-tasks handles
\* its cancellation leaves no sub-task of the channel running unawaited.
C17_CancelStopsSubtasks ==
    [][\A id \in TaskIds, ch \in Channels :
          (/\ HeadIs("rt") /\ HeadId = id
           /\ rt[id].st = "wait" /\ rt[id].cancel /\ rt[id].ch = ch
           /\ \E c \in Choices : RunRt(c))
              => pending'[ch] \subseteq pending[ch]]_vars

\* C18: when the text sub-task is cancelled while the backend is generating
\* and the backend can abort generation, the backend's stop call is issued.
C18_StopBeforePropagation ==
    (/\ log = "text_cancelled"
     /\ stats.stage \in {"request", "stream"}
     /\ stats.can_abort)
        => "stop" \in stats.calls

\* what a step leaves in log when the handling of a message ended with an
\* exception
ErrorTags == {"error_caught", "task_failed", "subtask_error", "send_failed"}

\* C19: an exception raised while one queued message is handled does not end
\* the response task, and log_response_failure is called for it.
C19_ExceptionsCounted ==
    log \in ErrorTags
        => /\ log # "task_failed"
           /\ "log_response_failure" \in stats.calls

\* what a step leaves in log when a response task handles its cancellation
CancelTags == {"task_cancelled", "text_cancelled", "cancel_ignored", "cancel_handled"}

\* C20: the steps in which a cancelled response task, or its cancelled text
\* sub-task, ends a response do not call log_response_failure.
C20_CancelNotCounted ==
    log \in CancelTags => "log_response_failure" \notin stats.calls

\* a panic has cancelled the response task while the backend was streaming
\* the response, and the text sub-task has been cancelled in turn
C20_Witness ==
    /\ log = "text_cancelled"
    /\ stats.stage = "stream"
    /\ \E id \in TaskIds : rt[id].st = "cleanup" /\ is_panicking(Cur, rt[id].ch)

\* C21: no response task waits on a text sub-task (generation requested)
\* for a message whose deletion was reported between its pop and the
\* creation of the sub-task.
C21_NoGenerationForDeleted ==
    \A id \in TaskIds : rt[id].st = "wait" => ~rt[id].gone

\* ------------------------------------------------------------ claims C22-C26
\* C22: every send and every edit of _render_streaming_response carries at
\* most message_character_limit characters, in token and in sentence mode,
\* for every sequence of stream units that are each within the limit, also
\* after limit splits.
C22_WithinLimit ==
    render.op.kind # "none" =>
        Len(render.op.content) <= message_character_limit

\* C23: once the filter has returned abort=true for a stream unit, the
\* renderer consumes no further unit, so nothing is sent or edited for
\* content that follows the aborting unit, whether or not the sanitized
\* text was empty at the abort.
C23_AbortEndsStream ==
    [][render.aborted => render'.units = render.units]_vars

C25_SentencePerMessage ==
    [][(/\ render.stream_responses = "sentence"
        /\ ~render.existing_message
        /\ render'.units = render.units + 1
        /\ render'.pc # "raised"
        /\ ~render'.skipped)
       => render'.op.kind = "send"]_vars

\* C25, amended: in sentence stream mode a non-empty unit is sent as a new
\* message when there is no current message (start of the stream, or a
\* limit split), and is otherwise appended to the response and delivered as
\* an edit of the current message.
C25_SentenceSendThenEdit ==
    [][(/\ render.stream_responses = "sentence"
        /\ render'.units = render.units + 1
        /\ render'.pc # "raised"
        /\ ~render'.skipped)
       => /\ render'.op.content = strip(render'.response)
          /\ IF render.last_message = 0 \/ render'.split
             THEN /\ render'.op.kind = "send"
                  /\ render'.op.id > render.ids
             ELSE /\ render'.op.kind = "edit"
                  /\ render'.op.id = render.last_message
                  /\ Len(render'.response) > Len(render.response)]_vars

\* a second sentence is edited into the message that the first one created
C25_Witness ==
    /\ render.stream_responses = "sentence"
    /\ ~render.existing_message
    /\ render.sends = 1
    /\ render.units = 2
    /\ render.op.kind = "edit"

C27_NothingAtOrBeforeMarker ==
    history.stop_before_message_id # 0 =>
        \A i \in 1..Len(history.out) :
            history.out[i] > history.stop_before_message_id

\* C28: when the throttle message id and the history marker id are both set,
\* the lower bound the history was read with is the more recent of the two.
C28_MoreRecentMarkerWins ==
    (/\ history.pc = "done"
     /\ history.repeated_id # 0
     /\ history.history_marker_id # 0)
        => history.stop_before_message_id
             = Max(history.repeated_id, history.history_marker_id)

C32_EveryModeSends ==
    (/\ ~render.existing_message
     /\ render.pc \in {"done", "unbound"}
     /\ render.stream_responses = "" \/ strip(render.response) # <<>>)
        => render.sends >= 1
\* ------------------------------------------------------------ claims C33-C34
\* C33: with respond_to_latest_only off, and no preemption, the response
\* task pops the messages of a channel in the order they were received,
\* whether they were queued directly or came through a buffer flush: while
\* every event so far brought a new message, no message that is still in
\* the queue when a message is popped was received before it.
C33_PopsInArrivalOrder ==
    [][\A id \in TaskIds, ch \in Channels :
          (/\ ~settings.respond_to_latest_only
           /\ ~settings.skip_in_progress_responses
           /\ used.n = used.maxm
           /\ rt'[id].ch = ch
           /\ rt'[id].cur # <<>>
           /\ rt'[id].cur # rt[id].cur)
          => \A i \in 1..Len(QueueOf(ch)') :
                QueueOf(ch)'[i] > rt'[id].cur[1]]_vars
\* C34: when the coroutine that preempted a response task is resumed with
\* respond_to_latest_only set, the channel's queue then holds exactly one
\* message, which is the latest message received for the channel (known
\* while every event so far brought a new message), and the guaranteed set
\* holds at most that message's id.
C34_PreemptLeavesLatest ==
    [][\A f \in FlowIds, ch \in Channels :
          (/\ PreemptResumed(f)
           /\ flows[f].ch = ch
           /\ settings.respond_to_latest_only)
          => /\ Len(QueueOf(ch)') = 1
             /\ used.n = used.maxm => QueueOf(ch)'[1] = used.maxm
             /\ guarantees'[ch] \subseteq {QueueOf(ch)'[1]}]_vars
\* ------------------------------------------------------------ claims C35-C38
\* C35: a message in a channel's queue is popped or removed without a
\* further inbound message: no state has a non-empty queue for a channel
\* with no response task running and no handler of that channel suspended
\* before the start of one, and a response task that has fetched its deque
\* works on the queue currently registered for its channel.
C35_QueueNeverStranded ==
    \A ch \in Channels :
        /\ QueueOf(ch) # <<>>
              => \/ ActiveRt(ch) # {}
                 \/ \E f \in FlowIds : flows[f].st # "free" /\ flows[f].ch = ch
        /\ \A id \in ActiveRt(ch) :
              (rt[id].st # "new" /\ ch \in DOMAIN queues) => rt[id].att
\* C36: is_responding(ch) is true exactly when a response task of ch has
\* been created and has not finished.
C36_IsRespondingExact ==
    \A ch \in Channels : is_responding(Cur, ch) <=> ActiveRt(ch) # {}

\* C37: is_panicking(ch) is true exactly while a panic task of ch is
\* pending.
C37_IsPanickingExact ==
    \A ch \in Channels : is_panicking(Cur, ch) <=> PendingPt(ch) # {}

\* C38: while is_panicking(ch) is true, the starter of an accumulation of ch
\* (its message is never a guaranteed one) that is resumed neither puts a
\* message into ch's queue nor starts a response task of ch.
C38_NoFlushWhilePanicking ==
    [][\A f \in FlowIds, ch \in Channels :
          (FlushStep(f) /\ flows[f].ch = ch /\ is_panicking(Cur, ch))
              => /\ QueueOf(ch)' = QueueOf(ch)
                 /\ ActiveRt(ch)' \subseteq ActiveRt(ch)]_vars

\* ------------------------------------------------------------ claims C39-C40
\* C39: the history iterator yields at most `limit` messages, the referenced
\* message it may append when the history is exhausted included, and yields
\* no message sent after the message being responded to
\* (ignore_all_until_message_id).
C39_HistoryWithinLimit ==
    /\ Len(history.out) <= history.limit
    /\ \A k \in 1..Len(history.out) :
          history.out[k] <= history.ignore_all_until_message_id

\* the history was read up to its limit of two or more messages: the messages
\* after the one being responded to were passed over, that one was yielded
\* first, and the message the oldest one replies to was appended last
C39_Witness ==
    /\ history.pc = "done"
    /\ history.limit >= 2
    /\ Len(history.out) = history.limit
    /\ history.ignore_all_until_message_id < MaxHistory
    /\ history.out[1] = history.ignore_all_until_message_id
    /\ history.out[Len(history.out)] < history.oldest

\* C40: is_buffered(ch, m) is true exactly when message m is in the
\* accumulation buffer of channel ch.
C40_IsBufferedExact ==
    \A ch \in Channels : \A m \in Msgs :
        is_buffered(Cur, ch, m) <=> Contains(BufferOf(ch), m)

====
